---- MODULE Spec2Model ----
(***************************************************************************)
(* Wordless: luminance-driven word placement (main.py) and the animation   *)
(* director (animate_depth_transition.py).                                 *)
(*                                                                         *)
(* Python's float is IEEE-754 binary64: every arithmetic result is the     *)
(* exact result rounded to the nearest value with a 53-bit significand,    *)
(* ties to even.  The model keeps that rounding rule and carries a         *)
(* significand of Precision bits, so that TLC's integers can hold the      *)
(* intermediate products.  A float is [m |-> significand, e |-> exponent], *)
(* standing for m * 2^e, kept canonical (m odd, or m = 0 and e = 0) so     *)
(* that equal values are equal records.                                    *)
(***************************************************************************)
EXTENDS Integers, Sequences, FiniteSets, TLC

\* Bits of significand carried by a float of the model.
Precision == 11

\* ------------------------------------------------------------------ floats

RECURSIVE Pow2(_)
Pow2(k) == IF k <= 0 THEN 1 ELSE 2 * Pow2(k - 1)

Abs(n) == IF n < 0 THEN -n ELSE n

Sign(n) == IF n < 0 THEN -1 ELSE 1

RECURSIVE BitLen(_)
BitLen(n) == IF n = 0 THEN 0 ELSE 1 + BitLen(n \div 2)

Min(a, b) == IF a <= b THEN a ELSE b

Max(a, b) == IF a >= b THEN a ELSE b

\* Canonical form of m * 2^e.
RECURSIVE Norm(_, _)
Norm(m, e) ==
    IF m = 0 THEN [m |-> 0, e |-> 0]
    ELSE IF m % 2 = 0 THEN Norm(m \div 2, e + 1)
    ELSE [m |-> m, e |-> e]

\* n * 2^e (plus, when sticky, a nonzero remainder below the last bit of n)
\* rounded to Precision bits, to nearest, ties to even.
RoundTo(n, e, sticky) ==
    LET a == Abs(n)
        k == BitLen(a) - Precision
    IN  IF k <= 0 THEN Norm(n, e)
        ELSE LET q    == a \div Pow2(k)
                 r    == a % Pow2(k)
                 half == Pow2(k - 1)
                 up   == r > half \/ (r = half /\ (sticky \/ q % 2 = 1))
             IN  Norm(Sign(n) * (IF up THEN q + 1 ELSE q), e + k)

\* float(n) for an int n.
FInt(n) == RoundTo(n, 0, FALSE)

FNeg(a) == [m |-> -a.m, e |-> a.e]

FAdd(a, b) ==
    LET e == Min(a.e, b.e)
    IN  RoundTo(a.m * Pow2(a.e - e) + b.m * Pow2(b.e - e), e, FALSE)

FSub(a, b) == FAdd(a, FNeg(b))

FMul(a, b) == RoundTo(a.m * b.m, a.e + b.e, FALSE)

\* n / d for ints n and d # 0 (true division): the quotient is developed to
\* at least Precision + 2 bits and the remainder is the sticky bit.
FRat(n, d) ==
    IF n = 0 THEN [m |-> 0, e |-> 0]
    ELSE LET s  == Max(0, Precision + 2 + BitLen(Abs(d)) - BitLen(Abs(n)))
             nn == Abs(n) * Pow2(s)
             dd == Abs(d)
         IN  RoundTo(Sign(n) * Sign(d) * (nn \div dd), -s, nn % dd # 0)

\* a / b for b # 0.
FDiv(a, b) ==
    LET q == FRat(a.m, b.m)
    IN  IF q.m = 0 THEN q ELSE [m |-> q.m, e |-> q.e + a.e - b.e]

\* Exact comparison of two floats.
FLt(a, b) ==
    LET e == Min(a.e, b.e)
    IN  a.m * Pow2(a.e - e) < b.m * Pow2(b.e - e)

\* int(a): truncation toward zero.
FTrunc(a) ==
    IF a.e >= 0 THEN a.m * Pow2(a.e)
    ELSE Sign(a.m) * (Abs(a.m) \div Pow2(-a.e))

\* The float a decimal literal n/d of the source denotes.
Dec(n, d) == FRat(n, d)

\* ------------------------------------------------------------------ state

VARIABLES
    frames_per_layer,       \* argument of accumulate_layers_animation
    final_original_frames,  \* argument of accumulate_layers_animation
    img_gray,               \* the grayscale view: [w, h, px]
    rng,                    \* the shared random generator
    heap,                   \* the Image objects, by reference
    base_img,               \* reference of the resized photograph
    settled_canvas,         \* reference of the settled canvas
    original_rgba,          \* reference of the RGBA photograph, 0 before line 209
    frames,                 \* the frame sequence: references, in append order
    idx,                    \* index of the current layer
    targets,                \* glyphs of the current layer
    f,                      \* flight loop variable
    i,                      \* fade loop variable
    pc,                     \* position in accumulate_layers_animation
    phases,                 \* the phases entered so far
    encoder,                \* the calls of Image.save made so far
    call,                   \* arguments of a call of luminance_to_alpha_and_density
    ret                     \* what that call returned

director == <<frames_per_layer, final_original_frames, img_gray, rng, heap,
              base_img, settled_canvas, original_rgba, frames, idx, targets,
              f, i, pc, phases, encoder>>

vars == <<director, call, ret>>

\* ------------------------------------------------------------ bounds

\* Width and height of the resized image.
ImgW == 16

ImgH == 2

\* frames_per_layer ranges over 0..MaxFrames.
MaxFrames == 2

\* final_original_frames ranges over 0..MaxFade.
MaxFade == 2

\* random.random() returns k / RandRes for k in 0..RandRes-1.
RandRes == 8

\* ------------------------------------------------------------ random

\* The k-th value of the generator's stream, as the numerator of a fraction
\* of RandRes.
Stream(r) == (r.seed + r.pos * r.stride) % RandRes

\* random.random(): a float in [0, 1).
random(r) == FRat(Stream(r), RandRes)

\* The generator after k more draws.
Skip(r, k) == [r EXCEPT !.pos = @ + k]

\* random.uniform(a, b) is a + (b - a) * random().
uniform(a, b, r) == FAdd(a, FMul(FSub(b, a), random(r)))

\* random.choice(seq): the index chosen, from 1.
choice(n, r) == 1 + (Stream(r) * n) \div RandRes

\* ------------------------------------------------------------ main.py

\* Sum of the pixels of the columns x..x2-1 of the rows y..y2-1.
RECURSIVE SumPixels(_, _, _, _, _)
SumPixels(img, x, x2, y, y2) ==
    IF y >= y2 \/ x >= x2 THEN 0
    ELSE LET RECURSIVE Row(_)
             Row(c) == IF c >= x2 THEN 0 ELSE img.px[<<c, y>>] + Row(c + 1)
         IN  Row(x) + SumPixels(img, x, x2, y + 1, y2)

sample_region_luminance(img, x, y, step) ==
    LET x2 == Min(x + step, img.w)
        y2 == Min(y + step, img.h)
        n  == Max(0, x2 - x) * Max(0, y2 - y)
    IN  IF n = 0 THEN FInt(255)
        ELSE FRat(SumPixels(img, x, x2, y, y2), n)

\* base_alpha + (1.0 - t) * alpha_boost_dark, with t = lum / 255.0.
AlphaFloat(lum, base_alpha, alpha_boost_dark) ==
    LET t == FDiv(lum, FInt(255))
    IN  FAdd(FInt(base_alpha), FMul(FSub(FInt(1), t), FInt(alpha_boost_dark)))

\* (1.0 - t) * density_scale.
DensityFloat(lum, density_scale) ==
    LET t == FDiv(lum, FInt(255))
    IN  FMul(FSub(FInt(1), t), density_scale)

\* The integer nearest to a float, halves upward.
FRound(a) ==
    IF a.e >= 0 THEN a.m * Pow2(a.e)
    ELSE (2 * a.m + Pow2(-a.e)) \div (2 * Pow2(-a.e))

\* Mutant of luminance_to_alpha_and_density: alpha is rounded to the nearest
\* integer.
luminance_to_alpha_and_density_rounded(lum, base_alpha, alpha_boost_dark, density_scale) ==
    LET alpha == FRound(AlphaFloat(lum, base_alpha, alpha_boost_dark))
    IN  [alpha   |-> Max(0, Min(255, alpha)),
         density |-> DensityFloat(lum, density_scale)]

\* Mutant of luminance_to_alpha_and_density: alpha is not clamped.
luminance_to_alpha_and_density_unclamped(lum, base_alpha, alpha_boost_dark, density_scale) ==
    [alpha   |-> FTrunc(AlphaFloat(lum, base_alpha, alpha_boost_dark)),
     density |-> DensityFloat(lum, density_scale)]

\* Mutant of luminance_to_alpha_and_density: t is used where 1.0 - t is meant.
luminance_to_alpha_and_density_inverted(lum, base_alpha, alpha_boost_dark, density_scale) ==
    LET t     == FDiv(lum, FInt(255))
        alpha == FTrunc(FAdd(FInt(base_alpha), FMul(t, FInt(alpha_boost_dark))))
    IN  [alpha   |-> Max(0, Min(255, alpha)),
         density |-> FMul(t, density_scale)]

luminance_to_alpha_and_density(lum, base_alpha, alpha_boost_dark, density_scale) ==
    LET alpha == FTrunc(AlphaFloat(lum, base_alpha, alpha_boost_dark))
    IN  [alpha   |-> Max(0, Min(255, alpha)),
         density |-> DensityFloat(lum, density_scale)]

\* font.getbbox(word) of the font backend, for a font of size fsize: the
\* box of a CJK glyph is about one em wide and high; the width varies with
\* the glyph.
getbbox(word, fsize) == <<0, 0, fsize - (word % 2), fsize>>

\* ------------------------------------------- generate_variations.py

subtle_soft == <<
    [font_size |-> 52, step |-> 56, base_alpha |-> 20, alpha_boost_dark |-> 130,
     density_scale |-> Dec(5, 10), color |-> <<0, 0, 0>>],
    [font_size |-> 30, step |-> 32, base_alpha |-> 30, alpha_boost_dark |-> 140,
     density_scale |-> Dec(9, 10), color |-> <<0, 0, 0>>],
    [font_size |-> 18, step |-> 18, base_alpha |-> 40, alpha_boost_dark |-> 150,
     density_scale |-> Dec(12, 10), color |-> <<0, 0, 0>>] >>

graphic_bold == <<
    [font_size |-> 64, step |-> 60, base_alpha |-> 40, alpha_boost_dark |-> 200,
     density_scale |-> Dec(8, 10), color |-> <<0, 0, 0>>],
    [font_size |-> 32, step |-> 30, base_alpha |-> 60, alpha_boost_dark |-> 190,
     density_scale |-> Dec(16, 10), color |-> <<0, 0, 0>>],
    [font_size |-> 16, step |-> 14, base_alpha |-> 70, alpha_boost_dark |-> 190,
     density_scale |-> Dec(18, 10), color |-> <<0, 0, 0>>] >>

\* ------------------------------------------ animate_depth_transition.py

combined_layers == subtle_soft \o graphic_bold

\* len(chinese_words); a word is its index in the list.
NumWords == 30

NoPos == <<>>

\* The grid cells of range(0, h, step) x range(0, w, step), row-major.
Cells(w, h, step) ==
    LET nx == (w + step - 1) \div step
        ny == (h + step - 1) \div step
    IN  [k \in 1..(nx * ny) |-> <<((k - 1) % nx) * step, ((k - 1) \div nx) * step>>]

\* (random.random() - 0.5) * 2 * step * 0.4
Jitter(step, r) ==
    FMul(FMul(FMul(FSub(random(r), Dec(5, 10)), FInt(2)), FInt(step)), Dec(4, 10))

\* x + step / 2.0 + jitter
Centre(x, step, jitter) == FAdd(FAdd(FInt(x), FRat(step, 2)), jitter)

\* max(6, int(layer.font_size * random.uniform(0.9, 1.2)))
FontSize(font_size, r) ==
    Max(6, FTrunc(FMul(FInt(font_size), uniform(Dec(9, 10), Dec(12, 10), r))))

\* The entry appended to targets: the word measured in its font.
Glyph(word, fsize, px, py, alpha, color) ==
    LET bbox == getbbox(word, fsize)
    IN  [word       |-> word,
         font       |-> fsize,
         width      |-> bbox[3] - bbox[1],
         height     |-> bbox[4] - bbox[2],
         target_pos |-> <<px, py>>,
         alpha      |-> alpha,
         color      |-> color,
         start_pos  |-> NoPos]

\* Mutant of PlaceGlyph: the thinning draw is taken only when the density is
\* below 1.
PlaceGlyph_short_circuit(ad, layer, cell, r) ==
    IF FLt(ad.density, FInt(1))
    THEN IF FLt(ad.density, random(r))
         THEN [glyphs |-> <<>>, rng |-> Skip(r, 1)]
         ELSE [glyphs |-> << Glyph(choice(NumWords, Skip(r, 1)),
                                   FontSize(layer.font_size, Skip(r, 4)),
                                   Centre(cell[1], layer.step, Jitter(layer.step, Skip(r, 2))),
                                   Centre(cell[2], layer.step, Jitter(layer.step, Skip(r, 3))),
                                   ad.alpha, layer.color) >>,
               rng |-> Skip(r, 5)]
    ELSE [glyphs |-> << Glyph(choice(NumWords, r),
                              FontSize(layer.font_size, Skip(r, 3)),
                              Centre(cell[1], layer.step, Jitter(layer.step, Skip(r, 1))),
                              Centre(cell[2], layer.step, Jitter(layer.step, Skip(r, 2))),
                              ad.alpha, layer.color) >>,
          rng |-> Skip(r, 4)]

\* The rest of a cell once the mapper has returned ad: the thinning draw, then
\* the draws for the word, the two jitters and the size, in that order.
PlaceGlyph(ad, layer, cell, r) ==
    IF FLt(ad.density, random(r))
    THEN [glyphs |-> <<>>, rng |-> Skip(r, 1)]
    ELSE [glyphs |-> << Glyph(choice(NumWords, Skip(r, 1)),
                              FontSize(layer.font_size, Skip(r, 4)),
                              Centre(cell[1], layer.step, Jitter(layer.step, Skip(r, 2))),
                              Centre(cell[2], layer.step, Jitter(layer.step, Skip(r, 3))),
                              ad.alpha, layer.color) >>,
          rng |-> Skip(r, 5)]

\* One cell of the planner's grid; r is the generator before the cell.
PlanCell(img, layer, density_multiplier, cell, r) ==
    PlaceGlyph(luminance_to_alpha_and_density(
                   sample_region_luminance(img, cell[1], cell[2], layer.step),
                   layer.base_alpha, layer.alpha_boost_dark,
                   FMul(layer.density_scale, density_multiplier)),
               layer, cell, r)

RECURSIVE PlanCells(_, _, _, _, _, _, _)
PlanCells(img, layer, density_multiplier, cells, k, acc, r) ==
    IF k > Len(cells) THEN [targets |-> acc, rng |-> r]
    ELSE LET c == PlanCell(img, layer, density_multiplier, cells[k], r)
         IN  PlanCells(img, layer, density_multiplier, cells, k + 1,
                       acc \o c.glyphs, c.rng)

generate_layer_targets(img, layer, density_multiplier, r) ==
    PlanCells(img, layer, density_multiplier,
              Cells(img.w, img.h, layer.step), 1, <<>>, r)

\* Mutant of OffscreenPos: on the right and bottom sides the offset is not
\* added to the extent.
OffscreenPos_no_extent(side, w, h, r1, r2) ==
    CASE side = 1 -> <<FMul(FInt(-w), uniform(Dec(1, 10), Dec(5, 10), r1)),
                       uniform(FInt(0), FInt(h), r2)>>
      [] side = 2 -> <<FMul(FInt(w), uniform(Dec(1, 10), Dec(5, 10), r1)),
                       uniform(FInt(0), FInt(h), r2)>>
      [] side = 3 -> <<uniform(FInt(0), FInt(w), r1),
                       FMul(FInt(-h), uniform(Dec(1, 10), Dec(5, 10), r2))>>
      [] OTHER    -> <<uniform(FInt(0), FInt(w), r1),
                       FMul(FInt(h), uniform(Dec(1, 10), Dec(5, 10), r2))>>

\* The start position on the chosen side; r1 and r2 are the generator at the
\* two draws that follow the choice of the side.
OffscreenPos(side, w, h, r1, r2) ==
    CASE side = 1 -> <<FMul(FInt(-w), uniform(Dec(1, 10), Dec(5, 10), r1)),
                       uniform(FInt(0), FInt(h), r2)>>
      [] side = 2 -> <<FMul(FInt(w), FAdd(FInt(1), uniform(Dec(1, 10), Dec(5, 10), r1))),
                       uniform(FInt(0), FInt(h), r2)>>
      [] side = 3 -> <<uniform(FInt(0), FInt(w), r1),
                       FMul(FInt(-h), uniform(Dec(1, 10), Dec(5, 10), r2))>>
      [] OTHER    -> <<uniform(FInt(0), FInt(w), r1),
                       FMul(FInt(h), FAdd(FInt(1), uniform(Dec(1, 10), Dec(5, 10), r2)))>>

random_offscreen_start(w, h, r) ==
    [pos |-> OffscreenPos(choice(4, r), w, h, Skip(r, 1), Skip(r, 2)),
     rng |-> Skip(r, 3)]

\* ------------------------------------------------------------ images

\* An Image object: what it was created from, the text drawn on it since,
\* the filters applied and its mode.
NewImage(mode, base) == [mode |-> mode, base |-> base, ops |-> <<>>, fx |-> <<>>]

\* A new object holding img.
Alloc(h, img) == [heap |-> Append(h, img), ref |-> Len(h) + 1]

\* Mutant of copy: the same object under another name.
copy_alias(h, r) == [heap |-> h, ref |-> r]

\* Image.copy(): a new object with the same content.
copy(h, r) == Alloc(h, h[r])

\* ImageDraw.Draw(image).text(...): draws on the object itself.
text(h, r, op) == [h EXCEPT ![r].ops = Append(@, op)]

\* Image.filter(ImageFilter.GaussianBlur(radius)): a new object.
filter(h, r, radius) ==
    Alloc(h, [h[r] EXCEPT !.fx = Append(@, <<"GaussianBlur", radius>>)])

\* Image.convert(mode): a new object.
convert(h, r, mode) == Alloc(h, [h[r] EXCEPT !.mode = mode])

\* Image.blend(im1, im2, alpha): a new object; a copy of im1 at alpha 0 and
\* of im2 at alpha 1.
blend(h, r1, r2, alpha) ==
    Alloc(h, IF alpha = FInt(0) THEN h[r1]
             ELSE IF alpha = FInt(1) THEN h[r2]
             ELSE NewImage(h[r1].mode, <<"blend", h[r1], h[r2], alpha>>))

\* ------------------------------------------------ main.py: draw_layer

\* The layers of build_word_image, which draws them with random_jitter 0.4.
word_image_layers == <<
    [font_size |-> 50, step |-> 50, base_alpha |-> 10, alpha_boost_dark |-> 180,
     density_scale |-> Dec(7, 10), color |-> <<0, 0, 0>>,
     random_jitter |-> Dec(4, 10), allow_rotation |-> FALSE],
    [font_size |-> 30, step |-> 26, base_alpha |-> 20, alpha_boost_dark |-> 150,
     density_scale |-> Dec(12, 10), color |-> <<0, 0, 0>>,
     random_jitter |-> Dec(4, 10), allow_rotation |-> TRUE],
    [font_size |-> 18, step |-> 14, base_alpha |-> 40, alpha_boost_dark |-> 160,
     density_scale |-> Dec(16, 10), color |-> <<0, 0, 0>>,
     random_jitter |-> Dec(4, 10), allow_rotation |-> TRUE],
    [font_size |-> 12, step |-> 10, base_alpha |-> 30, alpha_boost_dark |-> 200,
     density_scale |-> Dec(13, 10), color |-> <<0, 0, 0>>,
     random_jitter |-> Dec(4, 10), allow_rotation |-> FALSE] >>

\* tmp.rotate(angle, expand=1).getbbox() of the imaging library: the size of
\* the box of the rotated glyph, or <<>> when nothing of it is visible.  The
\* box of a rotated glyph is taken a quarter of the other side larger.
rotated_bbox(tw, th, alpha, angle) ==
    IF alpha = 0 \/ tw = 0 \/ th = 0 THEN <<>>
    ELSE IF angle = FInt(0) THEN <<tw, th>>
    ELSE <<tw + th \div 4, th + tw \div 4>>

\* Lines 104-127: the glyph composited after rotation, unless nothing of it
\* is visible.
DrawRotated(h, canvas, word, fsize, px, py, fill, angle, box) ==
    IF box = <<>> THEN h
    ELSE text(h, canvas,
              [xy    |-> <<FTrunc(FSub(px, FRat(box[1], 2))),
                           FTrunc(FSub(py, FRat(box[2], 2)))>>,
               word  |-> word, font |-> fsize, fill |-> fill, angle |-> angle])

\* Lines 128-136: the glyph drawn upright, centred on (px, py).
DrawUpright(h, canvas, word, fsize, px, py, fill, bbox) ==
    text(h, canvas,
         [xy   |-> <<FTrunc(FSub(px, FRat(bbox[3] - bbox[1], 2))),
                     FTrunc(FSub(py, FRat(bbox[4] - bbox[2], 2)))>>,
          word |-> word, font |-> fsize, fill |-> fill])

\* The glyph of a cell drawn on the object canvas, rotated by the next draw
\* if the layer allows it.
DrawGlyph(h, canvas, layer, word, fsize, px, py, alpha, bbox, r) ==
    IF layer.allow_rotation
    THEN [heap |-> DrawRotated(h, canvas, word, fsize, px, py,
                               layer.color \o <<alpha>>,
                               uniform(FInt(-25), FInt(25), r),
                               rotated_bbox(bbox[3] - bbox[1], bbox[4] - bbox[2], alpha,
                                            uniform(FInt(-25), FInt(25), r))),
          rng  |-> Skip(r, 1)]
    ELSE [heap |-> DrawUpright(h, canvas, word, fsize, px, py,
                               layer.color \o <<alpha>>, bbox),
          rng  |-> r]

\* draw_layer's jitter: (random.random() - 0.5) * 2 * step * random_jitter
LayerJitter(layer, r) ==
    FMul(FMul(FMul(FSub(random(r), Dec(5, 10)), FInt(2)), FInt(layer.step)),
         layer.random_jitter)

\* The glyph measured in its font, then drawn.
MeasureAndDraw(h, canvas, layer, word, fsize, px, py, alpha, r) ==
    DrawGlyph(h, canvas, layer, word, fsize, px, py, alpha, getbbox(word, fsize), r)

\* The rest of a cell once the mapper has returned ad: the thinning draw, then
\* the draws for the word, the two jitters and the size, in that order.
DrawPlaced(h, canvas, ad, layer, cell, r) ==
    IF FLt(ad.density, random(r))
    THEN [heap |-> h, rng |-> Skip(r, 1)]
    ELSE MeasureAndDraw(h, canvas, layer,
                        choice(NumWords, Skip(r, 1)),
                        FontSize(layer.font_size, Skip(r, 4)),
                        Centre(cell[1], layer.step, LayerJitter(layer, Skip(r, 2))),
                        Centre(cell[2], layer.step, LayerJitter(layer, Skip(r, 3))),
                        ad.alpha, Skip(r, 5))

\* One cell of draw_layer's grid, drawn on the object canvas; r is the
\* generator before the cell.
DrawCell(h, canvas, img, layer, cell, r) ==
    DrawPlaced(h, canvas,
               luminance_to_alpha_and_density(
                   sample_region_luminance(img, cell[1], cell[2], layer.step),
                   layer.base_alpha, layer.alpha_boost_dark, layer.density_scale),
               layer, cell, r)

RECURSIVE DrawCells(_, _, _, _, _, _, _)
DrawCells(h, canvas, img, layer, cells, k, r) ==
    IF k > Len(cells) THEN [heap |-> h, rng |-> r]
    ELSE LET c == DrawCell(h, canvas, img, layer, cells[k], r)
         IN  DrawCells(c.heap, canvas, img, layer, cells, k + 1, c.rng)

draw_layer(h, canvas, img, layer, r) ==
    DrawCells(h, canvas, img, layer, Cells(img.w, img.h, layer.step), 1, r)

\* ------------------------------------------------- the director's steps

\* Mutant of InRange: the loop stops one turn early.
InRange_short(k, n) == 0 <= k /\ k < n - 1

\* The test of a `for k in range(n)` loop.
InRange(k, n) == 0 <= k /\ k < n

\* Mutant of AfterLayer: the last layer is left out.
AfterLayer_skip_last(k) ==
    IF k + 2 < Len(combined_layers) THEN "plan" ELSE "original"

\* Where the layer loop of line 137 goes after layer k: to the next layer, or
\* past the loop.
AfterLayer(k) == IF k + 1 < Len(combined_layers) THEN "plan" ELSE "original"

\* Lines 150-152: a start position for every glyph, in order.
RECURSIVE AssignStartPositions(_, _, _, _, _)
AssignStartPositions(tg, k, w, h, r) ==
    IF k > Len(tg) THEN [targets |-> tg, rng |-> r]
    ELSE LET st == random_offscreen_start(w, h, r)
         IN  AssignStartPositions([tg EXCEPT ![k].start_pos = st.pos],
                                  k + 1, w, h, st.rng)

\* Lines 163-166: the position of a glyph at progress t_norm.
Interpolate(glyph, t_norm) ==
    LET sx == glyph.start_pos[1]
        sy == glyph.start_pos[2]
        tx == glyph.target_pos[1]
        ty == glyph.target_pos[2]
    IN  <<FAdd(sx, FMul(FSub(tx, sx), t_norm)),
          FAdd(sy, FMul(FSub(ty, sy), t_norm))>>

\* The draw.text call for a glyph centred at c.
TextAt(glyph, c) ==
    [xy   |-> <<FTrunc(FSub(c[1], FRat(glyph.width, 2))),
                FTrunc(FSub(c[2], FRat(glyph.height, 2)))>>,
     word |-> glyph.word,
     font |-> glyph.font,
     fill |-> glyph.color \o <<glyph.alpha>>]

\* Mutant of DrawFlying: a glyph whose centre is left of the canvas is not drawn.
RECURSIVE DrawFlying_culled(_, _, _, _, _)
DrawFlying_culled(h, r, tg, k, t_norm) ==
    IF k > Len(tg) THEN h
    ELSE LET c == Interpolate(tg[k], t_norm)
         IN  DrawFlying_culled(IF FLt(c[1], FInt(0)) THEN h
                               ELSE text(h, r, TextAt(tg[k], c)),
                               r, tg, k + 1, t_norm)

\* Lines 162-180: every glyph drawn in flight on the object r.
RECURSIVE DrawFlying(_, _, _, _, _)
DrawFlying(h, r, tg, k, t_norm) ==
    IF k > Len(tg) THEN h
    ELSE DrawFlying(text(h, r, TextAt(tg[k], Interpolate(tg[k], t_norm))),
                    r, tg, k + 1, t_norm)

\* Lines 192-206: every glyph drawn at its target on the object r.
RECURSIVE DrawSettled(_, _, _, _)
DrawSettled(h, r, tg, k) ==
    IF k > Len(tg) THEN h
    ELSE DrawSettled(text(h, r, TextAt(tg[k], tg[k].target_pos)), r, tg, k + 1)

\* (f + 1) / float(frames_per_layer)
TNorm(k, n) == FRat(k + 1, n)

\* 1.2 * (1.0 - t_norm)
FlightBlur(t_norm) == FMul(Dec(12, 10), FSub(FInt(1), t_norm))

\* max(0.0, 1.5 - 1.5 * alpha)
FadeBlur(alpha) ==
    LET b == FSub(Dec(15, 10), FMul(Dec(15, 10), alpha))
    IN  IF FLt(b, FInt(0)) THEN FInt(0) ELSE b

\* Lines 159-189: the object appended for flight frame k.
FlightFrameImage(h, canvas, tg, k, n) ==
    LET t_norm == TNorm(k, n)
        c      == copy(h, canvas)
        drawn  == DrawFlying(c.heap, c.ref, tg, 1, t_norm)
        radius == FlightBlur(t_norm)
        b      == IF FLt(Dec(1, 10), radius) THEN filter(drawn, c.ref, radius)
                  ELSE [heap |-> drawn, ref |-> c.ref]
    IN  convert(b.heap, b.ref, "P")

\* Mutant of FadeFrameImage: the blend weight is k / n.
FadeFrameImage_from_zero(h, canvas, original, k, n) ==
    LET alpha  == FRat(k, n)
        bl     == blend(h, canvas, original, alpha)
        radius == FadeBlur(alpha)
        b      == IF FLt(FInt(0), radius) THEN filter(bl.heap, bl.ref, radius)
                  ELSE bl
    IN  convert(b.heap, b.ref, "P")

\* Lines 211-217: the object appended for fade frame k.
FadeFrameImage(h, canvas, original, k, n) ==
    LET alpha  == FRat(k + 1, n)
        bl     == blend(h, canvas, original, alpha)
        radius == FadeBlur(alpha)
        b      == IF FLt(FInt(0), radius) THEN filter(bl.heap, bl.ref, radius)
                  ELSE bl
    IN  convert(b.heap, b.ref, "P")

\* Lines 141-147: the planner runs for layer idx.
Plan ==
    /\ pc = "plan"
    /\ LET p == generate_layer_targets(img_gray, combined_layers[idx + 1], FInt(1), rng)
       IN  /\ targets' = p.targets
           /\ rng' = p.rng
    /\ phases' = Append(phases, <<"PLANNING", idx>>)
    /\ pc' = "starts"
    /\ UNCHANGED <<frames_per_layer, final_original_frames, img_gray, heap, base_img,
                   settled_canvas, original_rgba, frames, idx, f, i, encoder, call, ret>>

\* Lines 150-152.
AssignStarts ==
    /\ pc = "starts"
    /\ LET a == AssignStartPositions(targets, 1, img_gray.w, img_gray.h, rng)
       IN  /\ targets' = a.targets
           /\ rng' = a.rng
    /\ f' = 0
    /\ pc' = IF InRange(0, frames_per_layer) THEN "fly" ELSE "commit"
    /\ UNCHANGED <<frames_per_layer, final_original_frames, img_gray, heap, base_img,
                   settled_canvas, original_rgba, frames, idx, i, phases, encoder,
                   call, ret>>

\* Lines 155-189: one turn of the flight loop.
FlightFrame ==
    /\ pc = "fly"
    /\ LET p == FlightFrameImage(heap, settled_canvas, targets, f, frames_per_layer)
       IN  /\ heap' = p.heap
           /\ frames' = Append(frames, p.ref)
    /\ phases' = Append(phases, <<"FLYING", idx, f>>)
    /\ f' = f + 1
    /\ pc' = IF InRange(f + 1, frames_per_layer) THEN "fly" ELSE "commit"
    /\ UNCHANGED <<frames_per_layer, final_original_frames, img_gray, rng, base_img,
                   settled_canvas, original_rgba, idx, targets, i, encoder, call, ret>>

\* Lines 192-206: the layer is added to the settled canvas.
Commit ==
    /\ pc = "commit"
    /\ heap' = DrawSettled(heap, settled_canvas, targets, 1)
    /\ phases' = Append(phases, <<"COMMITTED", idx>>)
    /\ idx' = idx + 1
    /\ pc' = AfterLayer(idx)
    /\ UNCHANGED <<frames_per_layer, final_original_frames, img_gray, rng, base_img,
                   settled_canvas, original_rgba, frames, targets, f, i, encoder,
                   call, ret>>

\* Line 209.
ConvertOriginal ==
    /\ pc = "original"
    /\ LET c == convert(heap, base_img, "RGBA")
       IN  /\ heap' = c.heap
           /\ original_rgba' = c.ref
    /\ i' = 0
    /\ pc' = IF InRange(0, final_original_frames) THEN "fade" ELSE "save"
    /\ UNCHANGED <<frames_per_layer, final_original_frames, img_gray, rng, base_img,
                   settled_canvas, frames, idx, targets, f, phases, encoder, call, ret>>

\* Lines 210-217: one turn of the fade loop.
FadeFrame ==
    /\ pc = "fade"
    /\ LET p == FadeFrameImage(heap, settled_canvas, original_rgba, i,
                               final_original_frames)
       IN  /\ heap' = p.heap
           /\ frames' = Append(frames, p.ref)
    /\ phases' = Append(phases, <<"FADING", i>>)
    /\ i' = i + 1
    /\ pc' = IF InRange(i + 1, final_original_frames) THEN "fade" ELSE "save"
    /\ UNCHANGED <<frames_per_layer, final_original_frames, img_gray, rng, base_img,
                   settled_canvas, original_rgba, idx, targets, f, encoder, call, ret>>

\* Lines 220-222.
NothingToSave ==
    /\ pc = "save"
    /\ frames = <<>>
    /\ pc' = "nothing"
    /\ UNCHANGED <<frames_per_layer, final_original_frames, img_gray, rng, heap,
                   base_img, settled_canvas, original_rgba, frames, idx, targets,
                   f, i, phases, encoder, call, ret>>

\* Mutant of SaveCall: append_images is the whole list.
SaveCall_all(fr) ==
    [first |-> fr[1], append_images |-> fr, duration |-> 120, loop |-> 0]

\* What frames[0].save(..., append_images=frames[1:], ...) hands the encoder.
SaveCall(fr) ==
    [first |-> fr[1], append_images |-> Tail(fr), duration |-> 120, loop |-> 0]

\* Lines 225-233.
SaveGif ==
    /\ pc = "save"
    /\ frames # <<>>
    /\ encoder' = Append(encoder, SaveCall(frames))
    /\ pc' = "saved"
    /\ UNCHANGED <<frames_per_layer, final_original_frames, img_gray, rng, heap,
                   base_img, settled_canvas, original_rgba, frames, idx, targets,
                   f, i, phases, call, ret>>

\* ------------------------------------------------------- specification

\* An image whose left half has one gray level and whose right half another.
TwoTone(w, h, left, right) ==
    [w |-> w, h |-> h,
     px |-> [p \in (0..(w - 1)) \X (0..(h - 1)) |->
               IF 2 * p[1] < w THEN left ELSE right]]

\* The images of the run: black, dark to mid-gray, mid-gray to white, white.
Images ==
    { TwoTone(ImgW, ImgH, g[1], g[2]) :
        g \in {<<0, 0>>, <<0, 90>>, <<90, 255>>, <<255, 255>>} }

Seeds == 0..(RandRes - 1)

Strides == {1, 3, 7}

NoCall == <<>>

\* The director has not been started.
DirectorIdle ==
    /\ frames_per_layer = 0
    /\ final_original_frames = 0
    /\ img_gray = TwoTone(0, 0, 0, 0)
    /\ rng = [seed |-> 0, stride |-> 0, pos |-> 0]
    /\ heap = <<>>
    /\ base_img = 0
    /\ settled_canvas = 0
    /\ original_rgba = 0
    /\ frames = <<>>
    /\ idx = 0
    /\ targets = <<>>
    /\ f = 0
    /\ i = 0
    /\ pc = "idle"
    /\ phases = <<>>
    /\ encoder = <<>>

Init ==
    /\ frames_per_layer \in 0..MaxFrames
    /\ final_original_frames \in 0..MaxFade
    /\ img_gray \in Images
    /\ rng \in {[seed |-> sd, stride |-> st, pos |-> 0] : sd \in Seeds, st \in Strides}
    /\ heap = <<NewImage("RGB", <<"photo">>), NewImage("RGBA", <<"background">>)>>
    /\ base_img = 1
    /\ settled_canvas = 2
    /\ original_rgba = 0
    /\ frames = <<>>
    /\ idx = 0
    /\ targets = <<>>
    /\ f = 0
    /\ i = 0
    /\ pc = "plan"
    /\ phases = <<>>
    /\ encoder = <<>>
    /\ call = NoCall
    /\ ret = NoCall

Next ==
    \/ Plan
    \/ AssignStarts
    \/ FlightFrame
    \/ Commit
    \/ ConvertOriginal
    \/ FadeFrame
    \/ NothingToSave
    \/ SaveGif

Spec == Init /\ [][Next]_vars

\* ------------------------------------- the functions applied to inputs

\* The luminances of a call of the mapper: the halves of 0..255.
Lums == {FRat(n, 2) : n \in 0..510}

BaseAlphas == {-300, 0, 10, 70, 255}

AlphaBoosts == {-300, 0, 130, 180, 255, 300}

MapperCalls ==
    { [fn |-> "luminance_to_alpha_and_density", lum |-> l, base_alpha |-> b,
       alpha_boost_dark |-> d, density_scale |-> s] :
        l \in Lums, b \in BaseAlphas, d \in AlphaBoosts,
        s \in {Dec(7, 10), Dec(16, 10)} }

\* A layer of build_word_image, or one with other opacities.
PlannerLayers ==
    { [word_image_layers[k] EXCEPT !.base_alpha = IF o[1] THEN o[2] ELSE @,
                                   !.alpha_boost_dark = IF o[1] THEN o[3] ELSE @] :
        k \in 1..Len(word_image_layers),
        o \in {<<FALSE, 0, 0>>, <<TRUE, -300, 100>>, <<TRUE, 200, 300>>,
               <<TRUE, 300, -100>>} }

PlannerCalls ==
    { [fn |-> "planner", img |-> g, layer |-> l,
       rng |-> [seed |-> sd, stride |-> st, pos |-> 0]] :
        g \in Images, l \in PlannerLayers, sd \in Seeds, st \in Strides }

\* A layer of build_word_image, or one drawn with draw_layer's default
\* random_jitter.
JitterLayers ==
    { [word_image_layers[k] EXCEPT !.random_jitter = j] :
        k \in 1..Len(word_image_layers), j \in {Dec(4, 10), Dec(3, 10)} }

\* The same image, layer and generator given to both planners.
BothPlannersCalls ==
    { [fn |-> "both planners", img |-> g, layer |-> l,
       rng |-> [seed |-> sd, stride |-> st, pos |-> 0]] :
        g \in Images, l \in JitterLayers, sd \in Seeds, st \in Strides }

\* Twice the luminances of a pair of calls of the mapper, the first not above
\* the second: neighbours, and each luminance with white.
LumPairs ==
    { <<n, n + 1>> : n \in 0..509 } \cup { <<n, 510>> : n \in 0..510 }

MapperPairCalls ==
    { [fn |-> "luminance_to_alpha_and_density twice",
       lum1 |-> FRat(q[1], 2), lum2 |-> FRat(q[2], 2), base_alpha |-> b,
       alpha_boost_dark |-> d, density_scale |-> s] :
        q \in LumPairs, b \in {-300, 10, 255}, d \in {0, 130, 300},
        s \in {FInt(0), Dec(7, 10), Dec(16, 10)} }

\* Canvas sizes of a call of random_offscreen_start.
Widths == {1, 3, 16, 43, 800}

Heights == {1, 2, 600}

OffscreenCalls ==
    { [fn |-> "random_offscreen_start", w |-> w, h |-> h,
       rng |-> [seed |-> sd, stride |-> st, pos |-> 0]] :
        w \in Widths, h \in Heights, sd \in Seeds, st \in Strides }

FunctionInit ==
    /\ DirectorIdle
    /\ \/ call \in MapperCalls
       \/ call \in MapperPairCalls
       \/ call \in PlannerCalls
       \/ call \in OffscreenCalls
       \/ call \in BothPlannersCalls
    /\ ret = NoCall

CallMapper ==
    /\ ret = NoCall
    /\ call.fn = "luminance_to_alpha_and_density"
    /\ ret' = [fn    |-> "luminance_to_alpha_and_density",
               value |-> luminance_to_alpha_and_density(
                             call.lum, call.base_alpha, call.alpha_boost_dark,
                             call.density_scale)]
    /\ UNCHANGED <<director, call>>

\* The mapper called for two luminances with the same layer parameters.
CallMapperTwice ==
    /\ ret = NoCall
    /\ call.fn = "luminance_to_alpha_and_density twice"
    /\ ret' = [fn    |-> "luminance_to_alpha_and_density twice",
               value |-> << luminance_to_alpha_and_density(
                                call.lum1, call.base_alpha, call.alpha_boost_dark,
                                call.density_scale),
                            luminance_to_alpha_and_density(
                                call.lum2, call.base_alpha, call.alpha_boost_dark,
                                call.density_scale) >>]
    /\ UNCHANGED <<director, call>>

CallGenerateLayerTargets ==
    /\ ret = NoCall
    /\ call.fn = "planner"
    /\ ret' = [fn    |-> "generate_layer_targets",
               value |-> generate_layer_targets(call.img, call.layer, FInt(1), call.rng)]
    /\ UNCHANGED <<director, call>>

\* One cell of generate_layer_targets' grid, with the generator as the call
\* finds it.
CallPlanCell ==
    /\ ret = NoCall
    /\ call.fn = "planner"
    /\ \E cell \in {Cells(call.img.w, call.img.h, call.layer.step)[k] :
                      k \in 1..Len(Cells(call.img.w, call.img.h, call.layer.step))} :
          ret' = [fn    |-> "generate_layer_targets cell",
                  cell  |-> cell,
                  value |-> PlanCell(call.img, call.layer, FInt(1), cell, call.rng)]
    /\ UNCHANGED <<director, call>>

\* One cell of draw_layer's grid on a fresh canvas, with the generator as the
\* call finds it.
CallDrawCell ==
    /\ ret = NoCall
    /\ call.fn = "planner"
    /\ \E cell \in {Cells(call.img.w, call.img.h, call.layer.step)[k] :
                      k \in 1..Len(Cells(call.img.w, call.img.h, call.layer.step))} :
          ret' = [fn    |-> "draw_layer cell",
                  cell  |-> cell,
                  value |-> DrawCell(<<NewImage("RGBA", <<"background">>)>>, 1,
                                     call.img, call.layer, cell, call.rng)]
    /\ UNCHANGED <<director, call>>

CallRandomOffscreenStart ==
    /\ ret = NoCall
    /\ call.fn = "random_offscreen_start"
    /\ ret' = [fn    |-> "random_offscreen_start",
               value |-> random_offscreen_start(call.w, call.h, call.rng)]
    /\ UNCHANGED <<director, call>>

\* draw_layer on a fresh canvas, as build_word_image and render_with_layers
\* call it for their first layer.
CallDrawLayer ==
    /\ ret = NoCall
    /\ call.fn = "planner"
    /\ LET d == draw_layer(<<NewImage("RGBA", <<"background">>)>>, 1,
                            call.img, call.layer, call.rng)
       IN  ret' = [fn    |-> "draw_layer",
                   value |-> [canvas |-> d.heap[1], rng |-> d.rng]]
    /\ UNCHANGED <<director, call>>

\* generate_layer_targets and draw_layer, each on the image, the layer and
\* the generator of the call, draw_layer on a fresh canvas.
CallBothPlanners ==
    /\ ret = NoCall
    /\ call.fn = "both planners"
    /\ ret' = [fn      |-> "both planners",
               planned |-> generate_layer_targets(call.img, call.layer, FInt(1), call.rng),
               drawn   |-> draw_layer(<<NewImage("RGBA", <<"background">>)>>, 1,
                                      call.img, call.layer, call.rng)]
    /\ UNCHANGED <<director, call>>

FunctionNext ==
    \/ CallMapper
    \/ CallMapperTwice
    \/ CallGenerateLayerTargets
    \/ CallPlanCell
    \/ CallDrawCell
    \/ CallDrawLayer
    \/ CallRandomOffscreenStart
    \/ CallBothPlanners

FunctionSpec == FunctionInit /\ [][FunctionNext]_vars

\* --------------------------------------------------------------- claims

Finished == pc \in {"save", "saved", "nothing"}

NumLayers == Len(combined_layers)

\* The phases of a whole run with n flight frames a layer and m fade frames:
\* for every layer in order PLANNING, FLYING 0..n-1, COMMITTED; then FADING
\* 0..m-1.
ExpectedPhases(n, m) ==
    [q \in 1..(NumLayers * (n + 2) + m) |->
        LET k == (q - 1) \div (n + 2)
            r == (q - 1) % (n + 2)
        IN  IF q > NumLayers * (n + 2) THEN <<"FADING", q - NumLayers * (n + 2) - 1>>
            ELSE IF r = 0 THEN <<"PLANNING", k>>
            ELSE IF r = n + 1 THEN <<"COMMITTED", k>>
            ELSE <<"FLYING", k, r - 1>>]

CountPhase(name) == Cardinality({q \in 1..Len(phases) : phases[q][1] = name})

\* C1: with frames_per_layer >= 1 and final_original_frames >= 0, when the run
\* reaches the save step the frame sequence holds exactly
\* frames_per_layer * (number of layers) + final_original_frames frames,
\* whatever the number of glyphs the planner emitted for each layer.
C1_FrameCount ==
    (Finished /\ frames_per_layer >= 1 /\ final_original_frames >= 0)
        => Len(frames) = frames_per_layer * NumLayers + final_original_frames

\* A run at the save step in which no layer emitted a glyph.
C1_Witness ==
    /\ pc = "save"
    /\ frames_per_layer = MaxFrames
    /\ final_original_frames = MaxFade
    /\ heap[settled_canvas].ops = <<>>
    /\ Len(frames) = MaxFrames * NumLayers + MaxFade

\* C2: the phases occur in the order PLANNING(k), FLYING(k, 0..n-1),
\* COMMITTED(k) for k = 0, 1, ... in layer order, then the fade: the phases
\* entered so far are a prefix of that order, the layers committed are
\* 0..idx-1, every frame belongs to one flight or fade phase, and at the save
\* step no phase has been skipped.
C2_PhaseOrder ==
    LET want == ExpectedPhases(Max(frames_per_layer, 0), Max(final_original_frames, 0))
    IN  /\ Len(phases) <= Len(want)
        /\ \A q \in 1..Len(phases) : phases[q] = want[q]
        /\ CountPhase("COMMITTED") = idx
        /\ CountPhase("FLYING") + CountPhase("FADING") = Len(frames)
        /\ (CountPhase("FADING") > 0 => idx = NumLayers)
        /\ (Finished => phases = want)

\* A finished run with flight and fade frames.
C2_Witness ==
    /\ pc = "saved"
    /\ frames_per_layer = MaxFrames
    /\ final_original_frames = MaxFade
    /\ CountPhase("COMMITTED") = NumLayers
    /\ heap[settled_canvas].ops # <<>>

\* C3: the settled canvas is one object, changed only by the commit step,
\* which adds the glyphs of the layer after those already there; no frame is
\* the settled canvas or another frame, and no appended frame changes.
C3_SettledOnlyByCommit ==
    /\ [](/\ \A k \in 1..Len(frames) : frames[k] # settled_canvas
          /\ \A k, j \in 1..Len(frames) : k # j => frames[k] # frames[j])
    /\ [][/\ settled_canvas' = settled_canvas
          /\ (pc # "commit" => heap'[settled_canvas] = heap[settled_canvas])
          /\ (pc = "commit" =>
                /\ Len(heap'[settled_canvas].ops)
                     = Len(heap[settled_canvas].ops) + Len(targets)
                /\ SubSeq(heap'[settled_canvas].ops, 1, Len(heap[settled_canvas].ops))
                     = heap[settled_canvas].ops)
          /\ Len(frames') >= Len(frames)
          /\ \A k \in 1..Len(frames) :
                frames'[k] = frames[k] /\ heap'[frames[k]] = heap[frames[k]]]_vars

\* After a flight in which glyphs were drawn on the frames of a later layer:
\* the last frame shows them, the settled canvas does not.
C3_Witness ==
    /\ pc = "commit"
    /\ idx >= 1
    /\ frames_per_layer >= 1
    /\ targets # <<>>
    /\ heap[settled_canvas].ops # <<>>
    /\ Len(heap[frames[Len(frames)]].ops)
         = Len(heap[settled_canvas].ops) + Len(targets)

\* C4: with frames_per_layer = 0 the run is rejected before any frame is
\* appended and before the encoder is invoked.
C4_ZeroFramesRejected ==
    frames_per_layer = 0 => (frames = <<>> /\ encoder = <<>>)

\* The frames the encoder was handed by its k-th call, in order.
Handed(k) == <<encoder[k].first>> \o encoder[k].append_images

\* C5: the encoder is invoked at most once, only when every flight and fade
\* frame has been appended, with the whole frame sequence in append order;
\* with an empty frame sequence it is never invoked.
C5_EncoderOnce ==
    /\ Len(encoder) <= 1
    /\ (encoder # <<>> =>
          /\ pc = "saved"
          /\ Handed(1) = frames
          /\ Len(frames) = Max(frames_per_layer, 0) * NumLayers
                             + Max(final_original_frames, 0)
          /\ idx = NumLayers)
    /\ (pc = "saved" => Len(encoder) = 1)
    /\ (pc = "nothing" => frames = <<>> /\ encoder = <<>>)
    /\ (frames = <<>> => encoder = <<>>)

\* The encoder was handed flight and fade frames.
C5_Witness ==
    /\ pc = "saved"
    /\ Len(encoder) = 1
    /\ Len(Handed(1)) = MaxFrames * NumLayers + MaxFade
    /\ MaxFrames * NumLayers + MaxFade > 1

\* a <= b on floats.
FLe(a, b) == a = b \/ FLt(a, b)

Between(a, p, b) == (FLe(a, p) /\ FLe(p, b)) \/ (FLe(b, p) /\ FLe(p, a))

\* C6: in the last flight frame the interpolated position of every glyph is
\* its target exactly and its top-left pixel is the one of the commit; in the
\* earlier frames the position lies between start and target and moves toward
\* the target.
C6_ExactArrival ==
    (pc \in {"fly", "commit"} /\ frames_per_layer >= 1) =>
        \A k \in 1..Len(targets) :
            LET g    == targets[k]
                at(j) == Interpolate(g, TNorm(j, frames_per_layer))
                last == at(frames_per_layer - 1)
            IN  /\ last = g.target_pos
                /\ TextAt(g, last).xy = TextAt(g, g.target_pos).xy
                /\ \A j \in 0..(frames_per_layer - 2) : \A c \in 1..2 :
                      /\ Between(g.start_pos[c], at(j)[c], g.target_pos[c])
                      /\ Between(at(j)[c], at(j + 1)[c], g.target_pos[c])

\* The k-th fade frame appended so far, from 0.
FadeFrameAt(k) == heap[frames[Len(frames) - i + 1 + k]]

\* C7: for final_original_frames >= 1 the last fade frame is the original
\* photograph, unblurred, with nothing of the settled canvas in it; every
\* earlier fade frame is a blend of weight below 1, blurred with a radius
\* above 0.
C7_FadeEndpoint ==
    (pc \in {"fade", "save", "saved"} /\ final_original_frames >= 1) =>
        \A k \in 0..(i - 1) :
            LET fr == FadeFrameAt(k)
            IN  IF k = final_original_frames - 1
                THEN /\ fr = [heap[original_rgba] EXCEPT !.mode = "P"]
                     /\ fr.base = <<"photo">>
                     /\ fr.ops = <<>>
                     /\ fr.fx = <<>>
                ELSE /\ Len(fr.base) = 4
                     /\ fr.base[1] = "blend"
                     /\ fr.base[2] = heap[settled_canvas]
                     /\ FLt(fr.base[4], FInt(1))
                     /\ Len(fr.fx) = 1
                     /\ FLt(FInt(0), fr.fx[1][2])

\* The fade of a settled canvas that holds glyphs has ended.
C7_Witness ==
    /\ pc = "saved"
    /\ final_original_frames = MaxFade
    /\ MaxFade >= 2
    /\ heap[settled_canvas].ops # <<>>

\* The draw calls ops[base + 1 ..] are those of the glyphs tg, in order, each
\* with the glyph's word, font and fill.
DrawnInOrder(ops, base, tg) ==
    /\ Len(ops) = base + Len(tg)
    /\ \A k \in 1..Len(tg) :
          /\ ops[base + k].word = tg[k].word
          /\ ops[base + k].font = tg[k].font
          /\ ops[base + k].fill = tg[k].color \o <<tg[k].alpha>>

\* C8: for each layer the planner runs once and the start positions are
\* assigned once, before the first flight frame; from then to the commit the
\* glyphs do not change and no randomness is drawn, and every flight frame
\* and the commit draw the same glyphs in the same order.
C8_GlyphsFixed ==
    [][/\ (targets' # targets => pc \in {"plan", "starts"})
       /\ (rng' # rng => pc \in {"plan", "starts"})
       /\ (pc = "plan" => pc' = "starts" /\ idx' = idx)
       /\ (pc' = "plan" => pc = "commit" /\ idx' = idx + 1)
       /\ (pc = "starts" =>
             /\ pc' \in {"fly", "commit"}
             /\ Len(targets') = Len(targets)
             /\ \A k \in 1..Len(targets) :
                   /\ targets[k].start_pos = NoPos
                   /\ targets'[k].start_pos # NoPos
                   /\ [targets'[k] EXCEPT !.start_pos = NoPos] = targets[k])
       /\ (pc = "fly" =>
             DrawnInOrder(heap'[frames'[Len(frames')]].ops,
                          Len(heap[settled_canvas].ops), targets))
       /\ (pc = "commit" =>
             DrawnInOrder(heap'[settled_canvas].ops,
                          Len(heap[settled_canvas].ops), targets))]_vars

\* A layer of two glyphs has flown for two frames and is about to be
\* committed.
C8_Witness ==
    /\ pc = "commit"
    /\ frames_per_layer >= 2
    /\ f = frames_per_layer
    /\ Len(targets) = 2
    /\ targets[1].word # targets[2].word

\* The mapper has returned.
MapperReturned ==
    /\ ret # NoCall
    /\ ret.fn = "luminance_to_alpha_and_density"

\* The integers nearest to n / d, for d > 0: two of them at a tie.
Nearest(n, d) ==
    LET k == n \div d
        r == n % d
    IN  IF 2 * r < d THEN {k} ELSE IF 2 * r > d THEN {k + 1} ELSE {k, k + 1}

\* C9 as stated: alpha is base_alpha + (1 - lum/255) * alpha_boost_dark
\* rounded to the nearest integer, then clamped.  The luminance is
\* LumTwice / 2.
C9_AlphaRounded ==
    (MapperReturned /\ call.base_alpha \in 0..255 /\ call.alpha_boost_dark \in 0..255) =>
        LET LumTwice == FTrunc(FMul(call.lum, FInt(2)))
            n == 510 * call.base_alpha + (510 - LumTwice) * call.alpha_boost_dark
        IN  \E k \in Nearest(n, 510) : ret.value.alpha = Max(0, Min(255, k))

\* C9 as amended: alpha is the float base_alpha + (1 - lum/255) *
\* alpha_boost_dark truncated toward zero, then clamped: the integer k with
\* k <= value < k + 1, or 255 if that is less.
C9_AlphaTruncated ==
    (MapperReturned /\ call.base_alpha \in 0..255 /\ call.alpha_boost_dark \in 0..255) =>
        LET v == AlphaFloat(call.lum, call.base_alpha, call.alpha_boost_dark)
        IN  \E k \in 0..510 :
                /\ FLe(FInt(k), v)
                /\ FLt(v, FInt(k + 1))
                /\ ret.value.alpha = Min(255, k)

\* A call whose value has a fraction of a half or more and is not clamped.
C9_Witness ==
    /\ MapperReturned
    /\ call.base_alpha \in 0..255
    /\ call.alpha_boost_dark \in 0..255
    /\ LET v == AlphaFloat(call.lum, call.base_alpha, call.alpha_boost_dark)
       IN  /\ FLe(FAdd(FInt(ret.value.alpha), Dec(5, 10)), v)
           /\ ret.value.alpha < 255

\* C10: whatever the integers base_alpha and alpha_boost_dark, the alpha the
\* mapper returns is an integer in 0..255, and so is the alpha of every glyph
\* generate_layer_targets emits and of every glyph draw_layer draws.
C10_AlphaInRange ==
    ret # NoCall =>
        /\ ret.fn = "luminance_to_alpha_and_density" => ret.value.alpha \in 0..255
        /\ ret.fn = "generate_layer_targets" =>
              \A k \in 1..Len(ret.value.targets) : ret.value.targets[k].alpha \in 0..255
        /\ ret.fn = "draw_layer" =>
              \A k \in 1..Len(ret.value.canvas.ops) :
                  ret.value.canvas.ops[k].fill[4] \in 0..255

\* A glyph emitted for a layer whose opacities sum above 255.
C10_Witness ==
    /\ ret # NoCall
    /\ ret.fn = "generate_layer_targets"
    /\ call.layer.base_alpha + call.layer.alpha_boost_dark > 255
    /\ \E k \in 1..Len(ret.value.targets) : ret.value.targets[k].alpha = 255

\* C11: for alpha_boost_dark >= 0 and density_scale >= 0 and luminances
\* l1 <= l2, the mapper returns alpha(l1) >= alpha(l2) and
\* density(l1) >= density(l2).
C11_Monotone ==
    (/\ ret # NoCall
     /\ ret.fn = "luminance_to_alpha_and_density twice"
     /\ call.alpha_boost_dark >= 0
     /\ FLe(FInt(0), call.density_scale)
     /\ FLe(call.lum1, call.lum2))
        => /\ ret.value[1].alpha >= ret.value[2].alpha
           /\ FLe(ret.value[2].density, ret.value[1].density)

\* A darker and a lighter cell: the darker is more opaque and denser.
C11_Witness ==
    /\ ret # NoCall
    /\ ret.fn = "luminance_to_alpha_and_density twice"
    /\ FLt(call.lum1, call.lum2)
    /\ ret.value[1].alpha > ret.value[2].alpha
    /\ ret.value[2].alpha > 0
    /\ FLt(ret.value[2].density, ret.value[1].density)

\* A planner has returned from one cell.
CellReturned ==
    /\ ret # NoCall
    /\ ret.fn \in {"generate_layer_targets cell", "draw_layer cell"}

\* What the mapper returns for the cell of the call.
CellMapped ==
    luminance_to_alpha_and_density(
        sample_region_luminance(call.img, ret.cell[1], ret.cell[2], call.layer.step),
        call.layer.base_alpha, call.layer.alpha_boost_dark, call.layer.density_scale)

\* The cell of the call received a glyph: generate_layer_targets emitted one,
\* draw_layer drew one, or, rotating, had nothing visible to composite.
CellPlaced ==
    IF ret.fn = "generate_layer_targets cell" THEN Len(ret.value.glyphs) = 1
    ELSE \/ Len(ret.value.heap[1].ops) = 1
         \/ (call.layer.allow_rotation /\ CellMapped.alpha = 0)

\* The draws of a placed cell after the thinning step: the word, two jitters,
\* the size and, in draw_layer with rotation, the angle.
DrawsAfterThinning ==
    IF ret.fn = "draw_layer cell" /\ call.layer.allow_rotation THEN 5 ELSE 4

\* C12 as stated: a cell of density above 1 is placed and no value is drawn
\* for its thinning step: the stream has advanced by the draws of the
\* placement alone.
C12_NeverSampled ==
    (CellReturned /\ FLt(FInt(1), CellMapped.density)) =>
        /\ CellPlaced
        /\ ret.value.rng = Skip(call.rng, DrawsAfterThinning)

\* C12 as amended: a cell of density above 1 is placed, and the thinning
\* value is drawn from the stream all the same: the stream has advanced by
\* one draw more than those of the placement.
C12_AlwaysPlaced ==
    (CellReturned /\ FLt(FInt(1), CellMapped.density)) =>
        /\ CellPlaced
        /\ ret.value.rng = Skip(call.rng, 1 + DrawsAfterThinning)

\* A cell of density above 1 placed by generate_layer_targets after the
\* largest thinning value of the stream.
C12_Witness ==
    /\ CellReturned
    /\ ret.fn = "generate_layer_targets cell"
    /\ FLt(FInt(1), CellMapped.density)
    /\ Stream(call.rng) = RandRes - 1
    /\ Len(ret.value.glyphs) = 1

\* p lies beyond the edge at 0 of an extent n, by 10% to 50% of n as the
\* program's arithmetic computes them.
BeyondLow(p, n) ==
    /\ FLt(p, FInt(0))
    /\ FLe(FMul(FInt(-n), Dec(5, 10)), p)
    /\ FLe(p, FMul(FInt(-n), Dec(1, 10)))

\* p lies beyond the edge at n of an extent n, by 10% to 50% of n as the
\* program's arithmetic computes them.
BeyondHigh(p, n) ==
    /\ FLt(FInt(n), p)
    /\ FLe(FMul(FInt(n), FAdd(FInt(1), Dec(1, 10))), p)
    /\ FLe(p, FMul(FInt(n), FAdd(FInt(1), Dec(5, 10))))

\* p lies within an extent n.
Within(p, n) == FLe(FInt(0), p) /\ FLe(p, FInt(n))

\* The sides of a w x h canvas beyond which the point pos lies, by 10% to 50%
\* of the side's dimension and with the other coordinate within the canvas.
SidesBeyond(pos, w, h) ==
    {sd \in {"left", "right", "top", "bottom"} :
        CASE sd = "left"  -> BeyondLow(pos[1], w) /\ Within(pos[2], h)
          [] sd = "right" -> BeyondHigh(pos[1], w) /\ Within(pos[2], h)
          [] sd = "top"   -> Within(pos[1], w) /\ BeyondLow(pos[2], h)
          [] OTHER        -> Within(pos[1], w) /\ BeyondHigh(pos[2], h)}

\* C13: a start position returned by random_offscreen_start(w, h), w, h > 0,
\* lies outside the canvas on exactly one side, 10% to 50% of that side's
\* dimension beyond the edge, the other coordinate within the canvas; it is
\* not in the canvas rectangle.
C13_Offscreen ==
    (ret # NoCall /\ ret.fn = "random_offscreen_start" /\ call.w > 0 /\ call.h > 0) =>
        /\ Cardinality(SidesBeyond(ret.value.pos, call.w, call.h)) = 1
        /\ ~(Within(ret.value.pos[1], call.w) /\ Within(ret.value.pos[2], call.h))

\* A start beyond the left edge at the smallest offset, 10% of the width.
C13_Witness ==
    /\ ret # NoCall
    /\ ret.fn = "random_offscreen_start"
    /\ SidesBeyond(ret.value.pos, call.w, call.h) = {"left"}
    /\ ret.value.pos[1] = FMul(FInt(-call.w), Dec(1, 10))

\* Both planners have returned for a layer without rotation.
BothReturned ==
    /\ ret # NoCall
    /\ ret.fn = "both planners"
    /\ ~call.layer.allow_rotation

\* C14: for the same image, layer without rotation and randomness stream,
\* generate_layer_targets with density_multiplier 1 emits, in the same order,
\* the glyphs draw_layer draws: the same number, each with the same word,
\* font size, alpha and colour and drawn where its target position puts it,
\* the jitter being that of the layer's random_jitter; and both leave the
\* stream at the same position.
C14_PlannerMirrors ==
    BothReturned =>
        LET tg  == ret.planned.targets
            ops == ret.drawn.heap[1].ops
        IN  /\ DrawnInOrder(ops, 0, tg)
            /\ \A k \in 1..Len(tg) : ops[k].xy = TextAt(tg[k], tg[k].target_pos).xy
            /\ ret.planned.rng = ret.drawn.rng

====
